---- MODULE Spec2Model ----
(***************************************************************************)
(* A model of fdwalk: the Walk iterator (src/src/lib.rs) over a small      *)
(* file system.  One pull of the iterator (Walk::next) is one action; the  *)
(* builder methods, the consumer dropping a yielded entry and a concurrent *)
(* deletion in the file system are the others.                             *)
(***************************************************************************)
EXTENDS Integers, Sequences, FiniteSets, TLC

\* ---------------------------------------------------------------- bounds
\* Most entries of the file systems enumerated in full, the root included.
MaxNodes == 2
\* Most yielded entries the consumer keeps alive at once.
MaxHeld == 1
\* Most symlinks in a file system.
MaxLinks == 1
\* Most pulls of one traversal that open under another symlink policy than
\* the pull before them.
MaxReconf == 1
\* Most disturbances of one behaviour: entries whose open is refused,
\* directories whose listing fails, subtrees another process deletes.
MaxFaults == 1

\* ----------------------------------------------------------- file system
\* The host file system the walk consumes: inodes 1..n, 1 being what the
\* good root path names.  parent[i] < i, so the tree is finite and acyclic.
NoNode == 0
RootPaths == {"/r", "nx"}

VARIABLES
    fs,              \* [n, parent, kind, name, target]: the directory tree
    gone,            \* inodes another process has deleted
    denied,          \* inodes whose open fails with EACCES
    broken,          \* [ino, after]: directories whose listing fails with EIO
    rev,             \* readdir lists a directory in descending inode order
    path,            \* Walk.path
    follow_symlinks, \* Walk.follow_symlinks
    walk_stack,      \* Walk.walk_stack: Vec<(N, Option<Arc<Dir>>)>, top last
    comp,            \* the type parameters [D, P] of Walk<FileEntry<D, P>>
    fds,             \* the process's descriptor table of Dir handles: [ino, rc]
    held,            \* entries the consumer still owns (their retained handle)
    result,          \* what the last pull returned, with that pull's log
    hist             \* the log of the traversal since the stack was seeded

vars == <<fs, gone, denied, broken, rev, path, follow_symlinks, walk_stack, comp,
          fds, held, result, hist>>

Basename(i) == fs.name[i]

Nodes == 1 .. fs.n

Children(d) == {c \in Nodes : fs.parent[c] = d /\ c \notin gone}

RECURSIVE Subtree(_)
Subtree(i) == {i} \cup UNION {Subtree(c) : c \in {x \in Nodes : fs.parent[x] = i}}

\* A set of inodes as the sequence readdir yields them.
RECURSIVE Listing(_, _)
Listing(S, desc) ==
    IF S = {} THEN <<>>
    ELSE LET m == IF desc THEN CHOOSE x \in S : \A y \in S : y <= x
                          ELSE CHOOSE x \in S : \A y \in S : x <= y
         IN <<m>> \o Listing(S \ {m}, desc)

\* Well-formed trees: a parent is an earlier directory, siblings have
\* distinct basenames, a symlink points at nothing (0), at itself (a
\* loop) or at a file or directory that is not above it.
WellFormed(t) ==
    /\ t.parent[1] = NoNode
    /\ t.kind[1] \in {"dir", "file"}
    /\ \A i \in 2 .. t.n :
          /\ t.parent[i] \in 1 .. (i - 1)
          /\ t.target[i] \in 0 .. t.n
          /\ t.kind[t.parent[i]] = "dir"
          /\ \A j \in 2 .. t.n :
                (j # i /\ t.parent[j] = t.parent[i]) => t.name[j] # t.name[i]
    /\ \A i \in 1 .. t.n :
          IF t.kind[i] = "link"
          THEN \/ t.target[i] \in {NoNode, i}
               \/ /\ t.target[i] \in (t.parent[i] + 1) .. t.n
                  /\ t.kind[t.target[i]] \in {"dir", "file"}
          ELSE t.target[i] = NoNode
    /\ Cardinality({i \in 1 .. t.n : t.kind[i] = "link"}) <= MaxLinks

\* The basenames entry k may have (one directory never holds two alike).
NamePool(k) == IF k = 2 THEN {"a"} ELSE {"a", "b"}

\* All trees of k entries: files, directories and symlinks.
RECURSIVE Shapes(_)
Shapes(k) ==
    IF k = 1
    THEN {[n |-> 1, parent |-> <<NoNode>>, kind |-> <<x>>, name |-> <<"/r">>,
           target |-> <<NoNode>>] : x \in {"dir", "file"}}
    ELSE {[n |-> k, parent |-> Append(t.parent, p), kind |-> Append(t.kind, x),
           name |-> Append(t.name, b), target |-> Append(t.target, g)]
             : t \in Shapes(k - 1), p \in 1 .. (k - 1),
               x \in {"dir", "file", "link"}, b \in NamePool(k), g \in 0 .. k}

\* The tree of the specification's scenario: file a, directory b holding
\* file c, and the empty directory d.
ScenarioTree ==
    [n |-> 5, parent |-> <<NoNode, 1, 1, 3, 1>>,
     kind |-> <<"dir", "file", "dir", "file", "dir">>,
     name |-> <<"/r", "a", "b", "c", "d">>,
     target |-> <<NoNode, NoNode, NoNode, NoNode, NoNode>>]

\* Directory a holding file b, and beside it the symlink l to a.
LinkToDirTree ==
    [n |-> 4, parent |-> <<NoNode, 1, 2, 1>>,
     kind |-> <<"dir", "dir", "file", "link">>,
     name |-> <<"/r", "a", "b", "l">>,
     target |-> <<NoNode, NoNode, NoNode, 2>>]

\* File a and beside it the symlink l to a.
LinkToFileTree ==
    [n |-> 3, parent |-> <<NoNode, 1, 1>>,
     kind |-> <<"dir", "file", "link">>,
     name |-> <<"/r", "a", "l">>,
     target |-> <<NoNode, NoNode, 2>>]

\* A chain of directories with equal basenames: a/a/b.
DeepTree ==
    [n |-> 4, parent |-> <<NoNode, 1, 2, 3>>,
     kind |-> <<"dir", "dir", "dir", "file">>,
     name |-> <<"/r", "a", "a", "b">>,
     target |-> <<NoNode, NoNode, NoNode, NoNode>>]

\* The file systems walked: every tree of up to MaxNodes entries, and the
\* four larger ones above.
Trees ==
    {t \in UNION {Shapes(k) : k \in 1 .. MaxNodes} : WellFormed(t)}
    \cup {ScenarioTree, LinkToDirTree, LinkToFileTree, DeepTree}

\* ------------------------------------------------ host system primitives
HardErrnos == {"EACCES", "EBADF", "EIO"}

\* Every root path naming the root of the tree.
ResolveRoot_any(p) == 1

\* What the good root path names; any other path names nothing.
ResolveRoot(p) == IF p = "/r" THEN 1 ELSE NoNode

\* The entry called seg in directory d ("." and ".." included).
Lookup(d, seg) ==
    IF d = NoNode \/ d \in gone THEN NoNode
    ELSE IF seg = "." THEN d
    ELSE IF seg = ".." THEN (IF fs.parent[d] = NoNode THEN d ELSE fs.parent[d])
    ELSE LET S == {c \in Children(d) : Basename(c) = seg}
         IN IF S = {} THEN NoNode ELSE CHOOSE c \in S : TRUE

\* open(2) of inode x itself, then fdopendir(3).
Classify(x) ==
    IF x \in denied THEN [errno |-> "EACCES", ino |-> NoNode]
    ELSE IF fs.kind[x] = "dir" THEN [errno |-> "OK", ino |-> x]
    ELSE [errno |-> "ENOTDIR", ino |-> NoNode]

\* An open that answers "not a directory" for a symlink it may not follow.
OpenEntry_link_notdir(e, follow) ==
    IF e = NoNode \/ e \in gone THEN [errno |-> "ENOENT", ino |-> NoNode]
    ELSE IF fs.kind[e] = "link"
         THEN IF ~follow THEN [errno |-> "ENOTDIR", ino |-> NoNode]
              ELSE IF fs.target[e] = e THEN [errno |-> "ELOOP", ino |-> NoNode]
              ELSE IF fs.target[e] = NoNode \/ fs.target[e] \in gone
                   THEN [errno |-> "ENOENT", ino |-> NoNode]
              ELSE Classify(fs.target[e])
         ELSE Classify(e)

\* Dir::open / Dir::openat of directory entry e under the symlink policy:
\* O_NOFOLLOW refuses a symlink with ELOOP, a symlink to itself is ELOOP
\* in any case, a missing entry or a dangling symlink is ENOENT.
OpenEntry(e, follow) ==
    IF e = NoNode \/ e \in gone THEN [errno |-> "ENOENT", ino |-> NoNode]
    ELSE IF fs.kind[e] = "link"
         THEN IF ~follow THEN [errno |-> "ELOOP", ino |-> NoNode]
              ELSE IF fs.target[e] = e THEN [errno |-> "ELOOP", ino |-> NoNode]
              ELSE IF fs.target[e] = NoNode \/ fs.target[e] \in gone
                   THEN [errno |-> "ENOENT", ino |-> NoNode]
              ELSE Classify(fs.target[e])
         ELSE Classify(e)

\* readdir(3) of directory d to the end of the stream: ".", "..", then the
\* entries.  The stream of a broken directory fails after that many entries.
ReadDir(d) ==
    LET all == <<[name |-> ".", ino |-> d, err |-> "OK"],
                 [name |-> "..", ino |-> Lookup(d, ".."), err |-> "OK"]>>
               \o [i \in 1 .. Cardinality(Children(d)) |->
                      [name |-> Basename(Listing(Children(d), rev)[i]),
                       ino |-> Listing(Children(d), rev)[i], err |-> "OK"]]
        cut == {b \in broken : b.ino = d}
    IN IF cut = {} THEN all
       ELSE LET k == 2 + (CHOOSE b \in cut : TRUE).after
            IN SubSeq(all, 1, IF k < Len(all) THEN k ELSE Len(all))
               \o <<[name |-> "", ino |-> NoNode, err |-> "EIO"]>>

\* ------------------------------------------------- Arc<Dir> and the fds
Closed == [ino |-> NoNode, rc |-> 0]

IsOpen(f, h) == h \in 1 .. Len(f) /\ f[h].rc > 0

RECURSIVE Trim(_)
Trim(f) ==
    IF f # <<>> /\ f[Len(f)].rc = 0 THEN Trim(SubSeq(f, 1, Len(f) - 1)) ELSE f

\* The descriptor open(2) hands out: the lowest one not in use.
LowestFree(f) ==
    IF \E i \in 1 .. Len(f) : f[i].rc = 0
    THEN CHOOSE i \in 1 .. Len(f) : f[i].rc = 0 /\ \A j \in 1 .. (i - 1) : f[j].rc > 0
    ELSE Len(f) + 1

\* Arc::new(Dir) on a fresh descriptor.
ArcNew(f, h, d) ==
    IF h = Len(f) + 1 THEN Append(f, [ino |-> d, rc |-> 1])
    ELSE [f EXCEPT ![h] = [ino |-> d, rc |-> 1]]

\* A clone that counts one reference more than it hands out.
ArcClone_extra(f, h, k) ==
    IF IsOpen(f, h) THEN [f EXCEPT ![h].rc = @ + k + 1] ELSE f

\* A pushed item keeping the bare descriptor instead of a clone of the Arc.
ArcClone_none(f, h, k) == f

\* Arc::clone, k times.
ArcClone(f, h, k) ==
    IF IsOpen(f, h) THEN [f EXCEPT ![h].rc = @ + k] ELSE f

\* A drop that never closes the directory.
ArcDrop_leak(f, h) ==
    IF IsOpen(f, h) /\ f[h].rc > 1 THEN [f EXCEPT ![h].rc = @ - 1] ELSE f

\* Dropping one Arc<Dir>: the last one closes the directory.
ArcDrop(f, h) ==
    IF ~IsOpen(f, h) THEN f
    ELSE IF f[h].rc = 1 THEN Trim([f EXCEPT ![h] = Closed])
    ELSE [f EXCEPT ![h].rc = @ - 1]

\* ----------------------------------------------- Entry for FileEntry<D, P>
\* A path chain (WithPath) is the list of segments from the node back to
\* the root; WithoutPath and WithoutOpen store nothing.
path_sink(P, base, segment) ==
    IF P = "WithPath" THEN <<segment>> \o base ELSE <<>>

dir_sink(D, h) == IF D = "WithOpen" THEN h ELSE NoNode

root(c, segment) ==
    [segment |-> segment,
     parent_node |-> path_sink(c.P, <<>>, segment),
     parent_dir |-> NoNode]

new_child(c, node, h, segment) ==
    [segment |-> segment,
     parent_node |-> path_sink(c.P, node.parent_node, segment),
     parent_dir |-> dir_sink(c.D, h)]

\* Dropping a FileEntry releases the handle it retains.
DropNode(f, node) == ArcDrop(f, node.parent_dir)

\* lib.rs 116-124: open_options takes the retained handle with unwrap(),
\* which panics on an entry that has none; otherwise it reaches openat.
open_options(node) ==
    IF node.parent_dir = NoNode THEN "panic" ELSE "openat"

\* lib.rs 111-113
open(node) == open_options(node)

\* lib.rs 102-108: the same unwrap() before fstatat.
stat(node) ==
    IF node.parent_dir = NoNode THEN "panic" ELSE "fstatat"

\* PathBuf::push: an absolute segment replaces the path.
PathPush(buf, segment) ==
    IF segment \in {"/r"} THEN <<segment>> ELSE Append(buf, segment)

RECURSIVE PushAllRev(_, _)
PushAllRev(buf, segments) ==
    IF segments = <<>> THEN buf
    ELSE PushAllRev(PathPush(buf, segments[Len(segments)]),
                    SubSeq(segments, 1, Len(segments) - 1))

RECURSIVE PushAll(_, _)
PushAll(buf, segments) ==
    IF segments = <<>> THEN buf
    ELSE PushAll(PathPush(buf, Head(segments)), Tail(segments))

\* to_path without the reversal of the collected segments.
to_path_unreversed(node) == PushAll(<<>>, node.parent_node)

\* FileEntry::to_path: collect the chain's segments, push them reversed.
to_path(node) == PushAllRev(<<>>, node.parent_node)

\* ------------------------------------------------------------ Walk::next
\* The flags with the policy ignored: every open follows.
OFlags_always_follow(follow) == "empty"

\* The flags with the two branches swapped.
OFlags_swapped(follow) == IF follow THEN "O_NOFOLLOW" ELSE "empty"

\* lib.rs 246-250: the flags of every directory open of one pull.
OFlags(follow) == IF follow THEN "empty" ELSE "O_NOFOLLOW"

\* lib.rs 252-261: openat relative to the popped item's parent handle with
\* the node's segment, or open by path when the item has no parent handle.
OpenItem(f, it, oflags) ==
    IF it.dir # NoNode
    THEN IF IsOpen(f, it.dir)
         THEN OpenEntry(Lookup(f[it.dir].ino, it.node.segment), oflags = "empty")
         ELSE [errno |-> "EBADF", ino |-> NoNode]
    ELSE OpenEntry(ResolveRoot(it.node.segment), oflags = "empty")

\* The directories a descriptor table holds open.
OpenDirs(f) == {h \in 1 .. Len(f) : f[h].rc > 0}

\* The directories the items of a stack keep open.
StackDirs(stack) == {stack[i].dir : i \in 1 .. Len(stack)} \ {NoNode}

\* What one open leaves in the log: which entry, how it was addressed,
\* whether the handle it was relative to was open on the listing directory,
\* and how many directories the walk has open when it returns: those of
\* the items still pending, that of the popped item, whose parent handle
\* is alive until then (lib.rs 252-261), and the one just opened.
OpenRecord(f, stack, it, follow, oflags, r) ==
    [chain |-> it.chain,
     follow |-> follow,
     how |-> IF it.dir # NoNode THEN "openat" ELSE "open",
     name |-> it.node.segment,
     base_open |-> IsOpen(f, it.dir),
     base_ino |-> IF IsOpen(f, it.dir) THEN f[it.dir].ino ELSE NoNode,
     oflags |-> oflags,
     errno |-> r.errno,
     nopen |-> Cardinality(StackDirs(stack)) + (IF r.errno = "OK" THEN 1 ELSE 0)]

\* PushChildren leaving the directory stream at "." instead of going on.
RECURSIVE PushChildren_break(_, _, _, _, _, _)
PushChildren_break(c, w, node, chain, h, entries) ==
    IF entries = <<>> THEN w
    ELSE LET e == Head(entries)
         IN IF e.err # "OK" THEN [w EXCEPT !.err = e.err]
            ELSE IF e.name = "." \/ e.name = ".."
            THEN w
            ELSE PushChildren_break(c,
                    [stack |-> Append(w.stack,
                                  [node |-> new_child(c, node, h, e.name),
                                   dir |-> h,
                                   chain |-> Append(chain, e.ino)]),
                     fds |-> ArcClone(w.fds, h,
                                 1 + (IF dir_sink(c.D, h) = h THEN 1 ELSE 0)),
                     err |-> "OK"],
                    node, chain, h, Tail(entries))

\* PushChildren queueing the children below the pending items.
RECURSIVE PushChildren_below(_, _, _, _, _, _)
PushChildren_below(c, w, node, chain, h, entries) ==
    IF entries = <<>> THEN w
    ELSE LET e == Head(entries)
         IN IF e.err # "OK" THEN [w EXCEPT !.err = e.err]
            ELSE IF e.name = "." \/ e.name = ".."
            THEN PushChildren_below(c, w, node, chain, h, Tail(entries))
            ELSE PushChildren_below(c,
                    [stack |-> <<[node |-> new_child(c, node, h, e.name),
                                  dir |-> h,
                                  chain |-> Append(chain, e.ino)]>> \o w.stack,
                     fds |-> ArcClone(w.fds, h,
                                 1 + (IF dir_sink(c.D, h) = h THEN 1 ELSE 0)),
                     err |-> "OK"],
                    node, chain, h, Tail(entries))

\* PushChildren giving up the children it pushed when a later read fails.
RECURSIVE PushChildren_rollback(_, _, _, _, _, _)
PushChildren_rollback(c, w, node, chain, h, entries) ==
    IF entries = <<>> THEN w
    ELSE IF \E i \in 1 .. Len(entries) : entries[i].err # "OK"
    THEN [w EXCEPT !.err = "EIO"]
    ELSE LET e == Head(entries)
         IN IF e.name = "." \/ e.name = ".."
            THEN PushChildren_rollback(c, w, node, chain, h, Tail(entries))
            ELSE PushChildren_rollback(c,
                    [stack |-> Append(w.stack,
                                  [node |-> new_child(c, node, h, e.name),
                                   dir |-> h,
                                   chain |-> Append(chain, e.ino)]),
                     fds |-> ArcClone(w.fds, h,
                                 1 + (IF dir_sink(c.D, h) = h THEN 1 ELSE 0)),
                     err |-> "OK"],
                    node, chain, h, Tail(entries))

\* lib.rs 277-289: one child per directory-stream entry other than "." and
\* "..", pushed with a clone of the directory's Arc; a failed read ends the
\* loop with the children pushed so far left on the stack.  (w and entries
\* name the values of w0 and entries0, computed once.)
RECURSIVE PushChildren(_, _, _, _, _, _)
PushChildren(c, w0, node, chain, h, entries0) ==
  CHOOSE y \in {
    IF entries = <<>> THEN w
    ELSE LET e == Head(entries)
         IN IF e.err # "OK" THEN [w EXCEPT !.err = e.err]
            ELSE IF e.name = "." \/ e.name = ".."
            THEN PushChildren(c, w, node, chain, h, Tail(entries))
            ELSE PushChildren(c,
                    [stack |-> Append(w.stack,
                                  [node |-> new_child(c, node, h, e.name),
                                   dir |-> h,
                                   chain |-> Append(chain, e.ino)]),
                     fds |-> ArcClone(w.fds, h,
                                 1 + (IF dir_sink(c.D, h) = h THEN 1 ELSE 0)),
                     err |-> "OK"],
                    node, chain, h, Tail(entries))
     : w \in {w0}, entries \in {entries0}} : TRUE

\* Disposition without the ENOENT arm: a vanished entry is a failure.
Disposition_enoent_fails(errno) ==
    CASE errno = "OK" -> "descend"
      [] errno = "ENOTDIR" -> "yield"
      [] errno = "ELOOP" -> "skip"
      [] OTHER -> "fail"

\* Disposition without the ELOOP arm: a refused symlink is a failure.
Disposition_eloop_fails(errno) ==
    CASE errno = "OK" -> "descend"
      [] errno = "ENOTDIR" -> "yield"
      [] errno = "ENOENT" -> "skip"
      [] OTHER -> "fail"

\* Disposition taking a refused symlink for a leaf.
Disposition_eloop_yields(errno) ==
    CASE errno = "OK" -> "descend"
      [] errno = "ENOTDIR" -> "yield"
      [] errno = "ELOOP" -> "yield"
      [] errno = "ENOENT" -> "skip"
      [] OTHER -> "fail"

\* Disposition taking a non-directory for a vanished entry.
Disposition_notdir_skips(errno) ==
    CASE errno = "OK" -> "descend"
      [] errno = "ENOTDIR" -> "skip"
      [] errno = "ENOENT" -> "skip"
      [] errno = "ELOOP" -> "skip"
      [] OTHER -> "fail"

\* lib.rs 263-272: what the pull does with the open's outcome.
Disposition(errno) ==
    CASE errno = "OK" -> "descend"
      [] errno = "ENOTDIR" -> "yield"
      [] errno = "ENOENT" -> "skip"
      [] errno = "ELOOP" -> "skip"
      [] OTHER -> "fail"

\* Option<Result<N, Errno>>: None and Some(Err(e)) carry no node.
NoEntry == [segment |-> "", parent_node |-> <<>>, parent_dir |-> NoNode]

\* A failed open that gives up the traversal.
AfterFail_abort(popped) == <<>>

\* lib.rs 271: a failed open returns at once; the rest of the stack stays.
AfterFail(popped) == popped

\* A pop that gives up one item too early.
PopFails_early(stack) == Len(stack) <= 1

\* lib.rs 244: self.walk_stack.pop()? returns None from next on an empty stack.
PopFails(stack) == stack = <<>>

\* lib.rs 242-291: the loop of one pull, from the pop to the return.  s is
\* [stack, fds, log]; the value is the state the pull leaves and its item.
\* s, r (the open's outcome), f1 (the descriptors once the parent's Arc is
\* dropped) and w (the stack once the children are pushed) name values
\* computed once, in the order the code computes them.
RECURSIVE Loop(_, _, _)
Loop(c, follow, s0) ==
  CHOOSE o1 \in {
    IF PopFails(s.stack)
    THEN [stack |-> s.stack, fds |-> s.fds, log |-> s.log, tag |-> "None",
          node |-> NoEntry, chain |-> <<>>, errno |-> "OK"]
    ELSE CHOOSE o2 \in {
         LET it == s.stack[Len(s.stack)]
             popped == SubSeq(s.stack, 1, Len(s.stack) - 1)
             oflags == OFlags(follow)
             h == LowestFree(s.fds)
             rec == OpenRecord(s.fds, s.stack, it, follow, oflags, r)
             opened == IF r.errno = "OK" THEN ArcNew(s.fds, h, r.ino) ELSE s.fds
             log == Append(s.log, rec)
             what == Disposition(r.errno)
         IN CHOOSE o3 \in {
            CASE what = "descend" ->
                   CHOOSE o4 \in {
                   LET f2 == DropNode(ArcDrop(w.fds, h), it.node)
                   IN IF w.err # "OK"
                      THEN [stack |-> w.stack, fds |-> f2, log |-> log,
                            tag |-> "Err", node |-> NoEntry, chain |-> <<>>,
                            errno |-> w.err]
                      ELSE Loop(c, follow,
                                [stack |-> w.stack, fds |-> f2, log |-> log])
                   : w \in {PushChildren(c, [stack |-> popped, fds |-> f1,
                                             err |-> "OK"],
                                         it.node, it.chain, h, ReadDir(r.ino))}} : TRUE
              [] what = "yield" ->
                   [stack |-> popped, fds |-> f1, log |-> log, tag |-> "Ok",
                    node |-> it.node, chain |-> it.chain, errno |-> "OK"]
              [] what = "skip" ->
                   Loop(c, follow,
                        [stack |-> popped, fds |-> DropNode(f1, it.node), log |-> log])
              [] OTHER ->
                   [stack |-> AfterFail(popped), fds |-> DropNode(f1, it.node), log |-> log,
                    tag |-> "Err", node |-> NoEntry, chain |-> <<>>,
                    errno |-> r.errno]
            : f1 \in {ArcDrop(opened, it.dir)}} : TRUE
         : r \in {OpenItem(s.fds, s.stack[Len(s.stack)], OFlags(follow))}} : TRUE
    : s \in {s0}} : TRUE

\* ----------------------------------------------------------- Walk::new
\* lib.rs 182-190: the stack of a new Walk is the root item, no parent handle.
Seed(c, p) == <<[node |-> root(c, p), dir |-> NoNode, chain |-> <<ResolveRoot(p)>>]>>

NoResult == [tag |-> "NoPull", node |-> NoEntry,
             errno |-> "OK", chain |-> <<>>, log |-> <<>>, flag |-> FALSE]

NoHist == [opens |-> {}, popped |-> <<>>, yielded |-> <<>>, failed |-> <<>>,
           reconfigured |-> 0, discarded |-> 0]

\* Dropping a Vec of pending items drops every node and every Arc in it.
RECURSIVE DropStack(_, _)
DropStack(f, stack) ==
    IF stack = <<>> THEN f
    ELSE DropStack(ArcDrop(DropNode(f, Head(stack).node), Head(stack).dir), Tail(stack))

\* The faults a file system may have: an entry whose open is refused
\* (after = -1) or a directory whose listing fails after so many entries.
FaultChoices(t) ==
    {[ino |-> i, after |-> -1] : i \in 1 .. t.n}
    \cup UNION {{[ino |-> d, after |-> k] :
                   k \in 0 .. Cardinality({c \in 1 .. t.n : t.parent[c] = d})}
                : d \in {x \in 1 .. t.n : t.kind[x] = "dir"}}

RECURSIVE SetsUpTo(_, _)
SetsUpTo(S, k) ==
    IF k = 0 THEN {{}}
    ELSE LET P == SetsUpTo(S, k - 1) IN P \cup {p \cup {x} : p \in P, x \in S}

\* The file system and the root path a walk is given.
Host ==
    /\ fs \in Trees
    /\ gone = {}
    /\ \E F \in SetsUpTo(FaultChoices(fs), MaxFaults) :
          /\ \A x, y \in F : x.ino = y.ino => x = y
          /\ denied = {x.ino : x \in {y \in F : y.after < 0}}
          /\ broken = {x \in F : x.after >= 0}
    /\ rev \in BOOLEAN
    /\ rev => \E i, j \in 1 .. fs.n : i # j /\ fs.parent[i] = fs.parent[j]
    /\ path \in RootPaths
    /\ path = "nx" => (fs.n = 1 /\ denied = {} /\ broken = {})

\* lib.rs 182-190: a Walk of composition c that has not been pulled.
Fresh(c) ==
    /\ follow_symlinks = FALSE
    /\ comp = c
    /\ walk_stack = Seed(c, path)
    /\ fds = <<>>
    /\ held = <<>>
    /\ result = NoResult
    /\ hist = NoHist

Compositions == [D : {"WithOpen", "WithoutOpen"}, P : {"WithPath", "WithoutPath"}]

\* lib.rs 306-308: walk(path) is the Walk of the default composition.
Init == Host /\ Fresh([D |-> "WithoutOpen", P |-> "WithoutPath"])

\* A pull that opens entries under another policy than the pull before it.
PolicyChanged(log) ==
    log # <<>> /\ hist.opens # {} /\ follow_symlinks # result.flag

\* The consumer's entries, kept in the order of their descriptors.
Keep(q, h) ==
    LET k == Cardinality({i \in 1 .. Len(q) : q[i] <= h})
    IN SubSeq(q, 1, k) \o <<h>> \o SubSeq(q, k + 1, Len(q))

\* Iterator::next: one pull.  A consumer that retains handles (WithOpen)
\* has room for the item before it pulls.
next ==
    /\ comp.D = "WithOpen" => Len(held) < MaxHeld
    /\ \E r \in {Loop(comp, follow_symlinks,
                     [stack |-> walk_stack, fds |-> fds, log |-> <<>>])} :
          /\ PolicyChanged(r.log) => hist.reconfigured < MaxReconf
          /\ walk_stack' = r.stack
          /\ fds' = r.fds
          /\ result' = [tag |-> r.tag, node |-> r.node, errno |-> r.errno,
                        chain |-> r.chain, log |-> r.log, flag |-> follow_symlinks]
          /\ held' = IF r.tag = "Ok" /\ comp.D = "WithOpen"
                     THEN Keep(held, r.node.parent_dir) ELSE held
          /\ hist' = [hist EXCEPT
                        !.opens = @ \cup {r.log[i] : i \in 1 .. Len(r.log)},
                        !.popped = @ \o [i \in 1 .. Len(r.log) |-> r.log[i].chain],
                        !.yielded = IF r.tag = "Ok"
                                    THEN Append(@, [node |-> r.node, chain |-> r.chain])
                                    ELSE @,
                        !.failed = IF r.tag = "Err"
                                   THEN Append(@, r.log[Len(r.log)].chain) ELSE @,
                        !.reconfigured = IF PolicyChanged(r.log) THEN @ + 1 ELSE @,
                        !.discarded = 0]
    /\ UNCHANGED <<fs, gone, denied, broken, rev, path, follow_symlinks, comp>>

\* lib.rs 199-208: the builder methods that set the policy.
SetFollow(b) ==
    /\ follow_symlinks' = b
    /\ UNCHANGED <<fs, gone, denied, broken, rev, path, walk_stack, comp, fds, held,
                   result, hist>>

follow_symlinks_ == SetFollow(TRUE)

no_follow_symlinks == SetFollow(FALSE)

\* with_node carrying the pending items over to the new composition.
with_node_keeps_progress(c) ==
    /\ comp' = c
    /\ UNCHANGED <<fs, gone, denied, broken, rev, path, follow_symlinks, held,
                   walk_stack, fds, result, hist>>

\* lib.rs 192-194: Walk::new(self.path, self.follow_symlinks) under the new
\* node type; the old stack is dropped with self.
with_node(c) ==
    /\ comp' = c
    /\ walk_stack' = Seed(c, path)
    /\ fds' = DropStack(fds, walk_stack)
    /\ result' = NoResult
    /\ hist' = [NoHist EXCEPT !.discarded = Len(walk_stack)]
    /\ UNCHANGED <<fs, gone, denied, broken, rev, path, follow_symlinks, held>>

with_paths == with_node([comp EXCEPT !.P = "WithPath"])

without_paths == with_node([comp EXCEPT !.P = "WithoutPath"])

with_open == with_node([comp EXCEPT !.D = "WithOpen"])

without_open == with_node([comp EXCEPT !.D = "WithoutOpen"])

\* The consumer drops an entry it was given.
DropEntry ==
    \E i \in 1 .. Len(held) :
       /\ held' = SubSeq(held, 1, i - 1) \o SubSeq(held, i + 1, Len(held))
       /\ fds' = ArcDrop(fds, held[i])
       /\ UNCHANGED <<fs, gone, denied, broken, rev, path, follow_symlinks, walk_stack,
                      comp, result, hist>>

\* Another process removes a listed, still pending entry and all beneath it.
Unlink ==
    \E i \in 1 .. Len(walk_stack) :
       LET n == walk_stack[i].chain[Len(walk_stack[i].chain)]
       IN /\ walk_stack[i].dir # NoNode
          /\ n \in Nodes \ gone
          /\ Cardinality(denied) + Cardinality(broken)
                + Cardinality({g \in gone : fs.parent[g] \notin gone}) < MaxFaults
          /\ gone' = gone \cup Subtree(n)
          /\ UNCHANGED <<fs, denied, broken, rev, path, follow_symlinks, walk_stack,
                         comp, fds, held, result, hist>>

Next ==
    \/ next
    \/ follow_symlinks_
    \/ no_follow_symlinks
    \/ with_paths
    \/ without_paths
    \/ with_open
    \/ without_open
    \/ DropEntry
    \/ Unlink

Spec == Init /\ [][Next]_vars

\* A no-follow walk of any composition that is pulled, and only pulled,
\* over a file system nobody modifies.  Every call of next returns, so a
\* consumer that keeps pulling takes every pull that is possible; it drops
\* the entries it was given to make room for more.
PullInit == Host /\ \E c \in Compositions : Fresh(c)

PullNext == next \/ DropEntry

PullSpec == PullInit /\ [][PullNext]_vars /\ WF_vars(next) /\ WF_vars(DropEntry)

\* ------------------------------------------------- reference definitions
\* What a walk should find, read off the tree alone.
RECURSIVE ChainOf(_)
ChainOf(i) == IF fs.parent[i] = NoNode THEN <<i>> ELSE Append(ChainOf(fs.parent[i]), i)

RootFound == ResolveRoot(path) # NoNode

SeqSet(q) == {q[i] : i \in 1 .. Len(q)}

NoDuplicates(q) == \A i, j \in 1 .. Len(q) : q[i] = q[j] => i = j

IsPrefix(a, b) == Len(a) <= Len(b) /\ SubSeq(b, 1, Len(a)) = a

Last(q) == q[Len(q)]

Policies == {o.oflags : o \in hist.opens}

NoFollowOnly == Policies \subseteq {"O_NOFOLLOW"}

YieldedChains == {hist.yielded[i].chain : i \in 1 .. Len(hist.yielded)}

\* The files a no-follow walk can reach: not deleted, not at or below an
\* entry whose open is refused.
LiveFiles ==
    IF RootFound
    THEN {ChainOf(i) : i \in {x \in Nodes \ gone :
                                 /\ fs.kind[x] = "file"
                                 /\ SeqSet(ChainOf(x)) \cap denied = {}}}
    ELSE {}

\* A chain is pending when an item on the stack is it or is above it.
Pending(L) == \E i \in 1 .. Len(walk_stack) : IsPrefix(walk_stack[i].chain, L)

HasLinks == \E i \in Nodes : fs.kind[i] = "link"

\* No open is refused and no listing fails.
NoFaults == denied = {} /\ broken = {}

\* The inode an entry stands for when it is opened with follow.
StandsFor(e) == IF e # NoNode /\ fs.kind[e] = "link" THEN fs.target[e] ELSE e

BrokenDirs == {b.ino : b \in broken}

\* C1: over a tree without symlinks that nobody modifies and where no open
\* is refused, a no-follow walk pulled to exhaustion has yielded every
\* non-directory entry exactly once and nothing else ("." and ".." never),
\* under every capability composition.
C1_ExactlyTheLeaves ==
    (/\ result.tag = "None"
     /\ ~HasLinks /\ gone = {} /\ NoFaults
     /\ NoFollowOnly)
    => /\ NoDuplicates(hist.yielded)
       /\ YieldedChains = LiveFiles
       /\ Len(hist.yielded) = Cardinality({i \in Nodes : RootFound /\ fs.kind[i] # "dir"})
       /\ hist.failed = <<>>
       /\ \A i \in 1 .. Len(hist.yielded) :
             hist.yielded[i].node.segment \notin {".", ".."}

C1_Witness ==
    /\ result.tag = "None"
    /\ ~HasLinks /\ gone = {} /\ NoFaults
    /\ NoFollowOnly
    /\ comp = [D |-> "WithoutOpen", P |-> "WithoutPath"]
    /\ Len(hist.yielded) = 2
    /\ \E i \in 1 .. 2 : Len(hist.yielded[i].chain) = 3

\* C2: a refused open (a hard error) is one failure item and costs only the
\* refused entry: right after it every file outside the refused entry's
\* subtree has been yielded or is still pending, and at exhaustion all of
\* them have been yielded, with one failure for each refused entry reached.
C2_HardErrorKeepsTheRest ==
    (gone = {} /\ broken = {} /\ NoFollowOnly)
    => /\ result.tag = "Err" =>
             /\ Last(Last(result.log).chain) \in denied
             /\ Last(hist.failed) = Last(result.log).chain
             /\ ~Pending(Last(result.log).chain)
             /\ \A L \in LiveFiles : L \in YieldedChains \/ Pending(L)
       /\ result.tag = "None" =>
             /\ YieldedChains = LiveFiles
             /\ NoDuplicates(hist.failed)
             /\ SeqSet(hist.failed) =
                   {ChainOf(d) : d \in {x \in denied :
                                            /\ RootFound /\ fs.kind[x] # "link"
                                            /\ SeqSet(ChainOf(x)) \cap denied = {x}}}

C2_Witness ==
    /\ gone = {} /\ broken = {} /\ NoFollowOnly
    /\ result.tag = "None"
    /\ Len(hist.failed) = 1
    /\ fs.kind[Last(hist.failed[1])] = "dir"
    /\ Len(hist.yielded) >= 1
    /\ \E i \in Nodes : fs.parent[i] \in denied

\* C3: an entry deleted between its listing and its open yields no item,
\* neither a success nor a failure, and the walk goes on: every file still
\* there has been yielded or is pending, and at exhaustion all were yielded.
C3_VanishedEntryIsSkipped ==
    NoFollowOnly
    => /\ \A o \in hist.opens :
             o.errno = "ENOENT" =>
                o.chain \notin YieldedChains /\ o.chain \notin SeqSet(hist.failed)
       /\ \A g \in gone :
             RootFound =>
                ChainOf(g) \notin YieldedChains /\ ChainOf(g) \notin SeqSet(hist.failed)
       /\ \A L \in LiveFiles :
             (result.tag # "NoPull" /\ broken = {}) => (L \in YieldedChains \/ Pending(L))
       /\ (result.tag = "None" /\ broken = {}) => YieldedChains = LiveFiles

C3_Witness ==
    /\ NoFollowOnly /\ broken = {}
    /\ result.tag = "None"
    /\ \E o \in hist.opens : o.errno = "ENOENT" /\ o.how = "openat"
    /\ Len(hist.yielded) >= 1
    /\ hist.failed = <<>>

\* What a following walk can reach below directory d, reached as prefix:
\* a symlink stands for its target, a dangling or self-pointing one for
\* nothing.
RECURSIVE Below(_, _)
Below(d, prefix) ==
    UNION {LET x == IF fs.kind[c] = "link" THEN fs.target[c] ELSE c
               ch == Append(prefix, c)
           IN IF x = NoNode \/ x \in gone \/ (fs.kind[c] = "link" /\ x = c) THEN {}
              ELSE IF fs.kind[x] = "file" THEN {ch}
              ELSE Below(x, ch)
           : c \in Children(d)}

FollowLeaves ==
    IF ~RootFound THEN {}
    ELSE IF fs.kind[1] = "file" THEN {<<1>>}
    ELSE Below(1, <<1>>)

\* The chains of every item the walk holds or has yielded.
KnownChains == {walk_stack[i].chain : i \in 1 .. Len(walk_stack)} \cup YieldedChains

\* C4: with follow disabled no symlink is ever opened as a directory, and
\* nothing is pushed or yielded through a symlink that was not opened with
\* follow enabled; with follow enabled throughout (no cycles, no deletion,
\* no refused open) the walk at exhaustion has yielded every leaf below the
\* symlinks' targets too.
C4_SymlinkDescentFollowsPolicy ==
    /\ \A o \in hist.opens :
          (Last(o.chain) # NoNode /\ fs.kind[Last(o.chain)] = "link" /\ ~o.follow)
             => o.errno # "OK"
    /\ \A ch \in KnownChains :
          \A k \in 1 .. (Len(ch) - 1) :
             fs.kind[ch[k]] = "link" =>
                \E o \in hist.opens :
                   o.chain = SubSeq(ch, 1, k) /\ o.follow /\ o.errno = "OK"
    /\ (/\ result.tag = "None" /\ gone = {} /\ NoFaults
        /\ \A o \in hist.opens : o.follow)
       => YieldedChains = FollowLeaves /\ NoDuplicates(hist.yielded)

C4_Witness ==
    /\ result.tag = "None" /\ gone = {} /\ NoFaults
    /\ \A o \in hist.opens : o.follow
    /\ \E ch \in YieldedChains : Len(ch) = 3 /\ fs.kind[ch[2]] = "link"

\* The basenames along a chain of entries, after the root path.
ExpectedPath(chain) ==
    <<path>> \o [i \in 1 .. (Len(chain) - 1) |-> Basename(chain[i + 1])]

\* C5: to_path() of every entry a path-tracking walk yields is the root
\* path followed by the basenames from the root down to the entry, each
\* once and in that order, whatever the order of the pops.
C5_ToPathIsRootToEntry ==
    comp.P = "WithPath" =>
       \A i \in 1 .. Len(hist.yielded) :
          to_path(hist.yielded[i].node) = ExpectedPath(hist.yielded[i].chain)

C5_Witness ==
    /\ comp.P = "WithPath"
    /\ ~rev
    /\ Len(hist.yielded) = 2
    /\ Len(hist.yielded[1].chain) = 3
    /\ to_path(hist.yielded[1].node) = <<"/r", "b", "c">>
    /\ to_path(hist.yielded[2].node) = <<"/r", "a">>

\* The directory a chain's entry was listed in: the inode its parent entry
\* stands for.
ListedIn(chain) ==
    LET e == chain[Len(chain) - 1]
    IN IF fs.kind[e] = "link" THEN fs.target[e] ELSE e

\* C6: only the root item is opened by path; every other item is opened
\* with its basename relative to the handle of the directory that listed
\* it, and that handle is open at the open and for as long as an item on
\* the stack refers to it.
C6_OpensAreRelativeToLiveHandles ==
    /\ \A o \in hist.opens :
          /\ o.how = "open" <=> Len(o.chain) = 1
          /\ o.how = "open" => o.name = path
          /\ o.how = "openat" =>
                /\ o.base_open
                /\ o.base_ino = ListedIn(o.chain)
                /\ Last(o.chain) \in Nodes /\ o.name = Basename(Last(o.chain))
    /\ \A i \in 1 .. Len(walk_stack) :
          LET it == walk_stack[i]
          IN IF Len(it.chain) = 1 THEN it.dir = NoNode
             ELSE /\ IsOpen(fds, it.dir)
                  /\ fds[it.dir].ino = ListedIn(it.chain)
                  /\ it.node.segment = Basename(Last(it.chain))

C6_Witness ==
    /\ \E o \in hist.opens : o.how = "openat" /\ Len(o.chain) = 3 /\ o.base_open
    /\ \E i \in 1 .. Len(walk_stack) :
          /\ walk_stack[i].dir # NoNode
          /\ fds[walk_stack[i].dir].rc = 1
    /\ comp.D = "WithoutOpen"

\* C7: an entry is yielded only when its open as a directory said
\* not-a-directory; an entry that opened as a directory (the root and an
\* empty directory included) is never yielded, and when its listing works
\* it is not reported as a failure either.
C7_OnlyNonDirectoriesAreYielded ==
    /\ \A i \in 1 .. Len(hist.yielded) :
          \E o \in hist.opens :
             o.chain = hist.yielded[i].chain /\ o.errno = "ENOTDIR"
    /\ \A o \in hist.opens :
          o.errno # "ENOTDIR" => o.chain \notin YieldedChains
    /\ \A o \in hist.opens :
          (o.errno = "OK" /\ StandsFor(Last(o.chain)) \notin BrokenDirs)
             => o.chain \notin SeqSet(hist.failed)

C7_Witness ==
    /\ fs = ScenarioTree /\ NoFaults /\ gone = {}
    /\ result.tag = "None"
    /\ YieldedChains = {<<1, 2>>, <<1, 3, 4>>}
    /\ hist.failed = <<>>
    /\ \E o \in hist.opens : o.chain = <<1, 5>> /\ o.errno = "OK"

\* C8 as stated: a failure item carries the OS error and the identity of
\* the entry whose open or listing failed.
C8_FailureNamesItsEntry ==
    result.tag = "Err" =>
       /\ result.errno \in HardErrnos
       /\ result.node.segment = Last(result.log).name

\* C8 as amended: a failure item is the OS error of the failed open or of
\* the failed listing and nothing else; the entry it belongs to, the last
\* one the pull opened, is dropped inside the pull.
C8_FailureIsErrnoOnly ==
    result.tag = "Err" =>
       /\ result.errno \in HardErrnos
       /\ \/ result.errno = Last(result.log).errno
          \/ /\ Last(result.log).errno = "OK"
             /\ result.errno = "EIO"
             /\ StandsFor(Last(Last(result.log).chain)) \in BrokenDirs
       /\ result.node = NoEntry
       /\ \A i \in 1 .. Len(walk_stack) : walk_stack[i].chain # Last(result.log).chain

C8_Witness ==
    /\ result.tag = "Err"
    /\ result.errno = "EACCES"
    /\ Last(result.log).how = "openat"
    /\ Len(walk_stack) >= 1

\* C9: each of with_paths, without_paths, with_open, without_open, in any
\* state, leaves a stack of one item, the root under the new composition
\* with no parent handle, keeps the root path and the symlink policy, and
\* discards whatever was pending.
C9_CapabilityChangeReseeds ==
    [][(with_paths \/ without_paths \/ with_open \/ without_open) =>
          /\ Len(walk_stack') = 1
          /\ walk_stack'[1].dir = NoNode
          /\ walk_stack'[1].node = root(comp', path)
          /\ walk_stack'[1].node.parent_dir = NoNode
          /\ path' = path
          /\ follow_symlinks' = follow_symlinks
          /\ hist'.discarded = Len(walk_stack)
          /\ \A h \in 1 .. Len(fds') :
                fds'[h].rc = Cardinality({i \in 1 .. Len(held) : held[i] = h})]_vars

C9_Witness ==
    /\ hist.discarded >= 2
    /\ Len(walk_stack) = 1
    /\ result.tag = "NoPull"
    /\ follow_symlinks
    /\ comp = [D |-> "WithOpen", P |-> "WithPath"]

\* C10 as stated: all directory opens of one traversal use one policy.
C10_OnePolicyPerTraversal == Cardinality(Policies) <= 1

\* C10 as amended: every open of a pull uses the policy in effect at that
\* pull, and the opens of a traversal agree as long as no pull finds the
\* policy changed by follow_symlinks() or no_follow_symlinks().
C10_PolicyIsTheFlagAtEachPull ==
    /\ \A i \in 1 .. Len(result.log) :
          /\ result.log[i].follow = result.flag
          /\ result.log[i].oflags = (IF result.flag THEN "empty" ELSE "O_NOFOLLOW")
    /\ \A o \in hist.opens :
          o.oflags = (IF o.follow THEN "empty" ELSE "O_NOFOLLOW")
    /\ hist.reconfigured = 0 => Cardinality(Policies) <= 1
    /\ (hist.reconfigured = 0 /\ result.log # <<>>) =>
          Policies = {IF result.flag THEN "empty" ELSE "O_NOFOLLOW"}

C10_Witness ==
    /\ hist.reconfigured = 0
    /\ follow_symlinks /\ result.flag
    /\ Policies = {"empty"}
    /\ Cardinality(hist.opens) >= 3
    /\ Len(walk_stack) >= 1
\* C11: a pull returns end-of-sequence exactly when its pop finds the stack
\* empty (it then leaves the stack empty and has opened nothing since the
\* last pop, while a pull that returns an item has popped one), and over an
\* unmodified finite tree the pulls of a no-follow walk reach
\* end-of-sequence.
C11_EndOfSequenceIffEmptyAndReached ==
    /\ [][next =>
             /\ walk_stack = <<>> => (result'.tag = "None" /\ result'.log = <<>>)
             /\ result'.tag = "None" => walk_stack' = <<>>
             /\ result'.tag # "None" => (walk_stack # <<>> /\ result'.log # <<>>)]_vars
    /\ <>(result.tag = "None")

C11_Witness ==
    /\ result.tag = "None"
    /\ Len(hist.yielded) = 2
    /\ ~follow_symlinks /\ gone = {}
    /\ walk_stack = <<>>
\* The pending items and the consumer's entries that refer to handle h.
PendingRefs(h) == Cardinality({i \in 1 .. Len(walk_stack) : walk_stack[i].dir = h})

RetainedRefs(h) ==
    Cardinality({i \in 1 .. Len(walk_stack) : walk_stack[i].node.parent_dir = h})
    + Cardinality({i \in 1 .. Len(held) : held[i] = h})

\* C12 as stated: between pulls a handle is open exactly when a pending
\* item refers to it, and none is open once the sequence is exhausted.
C12_OpenIffPending ==
    /\ \A h \in 1 .. Len(fds) : IsOpen(fds, h) <=> PendingRefs(h) > 0
    /\ result.tag = "None" => \A h \in 1 .. Len(fds) : ~IsOpen(fds, h)

\* C12 as amended: between pulls a handle is open exactly when a pending
\* item or an entry the consumer still owns refers to it (its count is the
\* number of those references); without handle retention, and a consumer
\* owning none, that is exactly the pending items, and no handle is open
\* once the sequence is exhausted.
C12_OpenIffPendingOrRetained ==
    /\ \A h \in 1 .. Len(fds) :
          /\ fds[h].rc = PendingRefs(h) + RetainedRefs(h)
          /\ IsOpen(fds, h) <=> (PendingRefs(h) + RetainedRefs(h) > 0)
    /\ \A i \in 1 .. Len(walk_stack) :
          walk_stack[i].node.parent_dir \in {NoNode, walk_stack[i].dir}
    /\ (comp.D = "WithoutOpen" /\ held = <<>>) =>
          /\ \A h \in 1 .. Len(fds) : IsOpen(fds, h) <=> PendingRefs(h) > 0
          /\ result.tag = "None" => fds = <<>>

C12_Witness ==
    /\ result.tag = "None" /\ walk_stack = <<>>
    /\ held # <<>> /\ IsOpen(fds, held[1])
    /\ PendingRefs(held[1]) = 0
    /\ Len(hist.yielded) = 2
\* The opens of the last pull that found a directory: its enumerations.
Enumerations == {i \in 1 .. Len(result.log) : result.log[i].errno = "OK"}

\* C13 as stated: one pull opens at most one directory and enumerates at
\* most one.
C13_OneOpenPerPull ==
    Len(result.log) <= 1 /\ Cardinality(Enumerations) <= 1

\* C13 as amended: a pull opens each item it pops once, in turn, and goes
\* on to the next pop after a directory, a vanished entry or a refused
\* symlink; only its last open can be a non-directory (the item yielded)
\* or a failure, and it enumerates exactly the directories it opened.
C13_OneOpenPerPoppedItem ==
    /\ \A i \in 1 .. Len(result.log) :
          i < Len(result.log) \/ result.tag = "None"
             => result.log[i].errno \in {"OK", "ENOENT", "ELOOP"}
    /\ \A i, j \in 1 .. Len(result.log) :
          result.log[i].chain = result.log[j].chain => i = j
    /\ result.tag = "Ok" =>
          /\ result.log # <<>>
          /\ Last(result.log).errno = "ENOTDIR"
          /\ Last(result.log).chain = result.chain
    /\ result.tag = "Err" =>
          /\ result.log # <<>>
          /\ Last(result.log).errno \in HardErrnos \cup {"OK"}
    /\ \A i \in Enumerations :
          /\ StandsFor(Last(result.log[i].chain)) # NoNode
          /\ fs.kind[StandsFor(Last(result.log[i].chain))] = "dir"

C13_Witness ==
    /\ result.tag = "Ok"
    /\ Len(result.log) >= 3
    /\ Cardinality(Enumerations) >= 2
    /\ Len(hist.yielded) = 1
\* C14 as stated: an open that reports a symlink loop yields nothing when
\* it was made with follow disabled and is a failure item when it was made
\* with follow enabled.
C14_LoopFailsUnderFollow ==
    \A o \in hist.opens :
       o.errno = "ELOOP" =>
          /\ o.chain \notin YieldedChains
          /\ o.follow <=> (o.chain \in SeqSet(hist.failed))

\* The children of d its listing delivers, in the order it delivers them.
ReadOf(d) ==
    LET L == Listing(Children(d), rev)
        cut == {b \in broken : b.ino = d}
        k == IF cut = {} THEN Len(L) ELSE (CHOOSE b \in cut : TRUE).after
    IN SubSeq(L, 1, IF k < Len(L) THEN k ELSE Len(L))

\* The entries a no-follow walk gets to see.
RECURSIVE Seen(_)
Seen(i) ==
    IF fs.parent[i] = NoNode THEN RootFound
    ELSE /\ Seen(fs.parent[i])
         /\ fs.parent[i] \notin denied
         /\ i \in SeqSet(ReadOf(fs.parent[i]))

SeenFiles ==
    {ChainOf(i) : i \in {x \in Nodes : fs.kind[x] = "file" /\ x \notin denied /\ Seen(x)}}

\* C15: a listing that fails part-way makes that pull a failure item; the
\* children read before the failure are on top of the stack, above the
\* items pending before, and are processed by later pulls; the children
\* not read are never opened; at exhaustion exactly the files seen have
\* been yielded.
C15_PartialListingKeepsWhatWasRead ==
    (gone = {} /\ NoFollowOnly)
    => /\ \A o \in hist.opens : Last(o.chain) # NoNode => Seen(Last(o.chain))
       /\ (result.tag = "Err" /\ Last(result.log).errno = "OK") =>
             LET ch == Last(result.log).chain
                 read == ReadOf(Last(ch))
                 below == Len(walk_stack) - Len(read)
             IN /\ Last(ch) \in BrokenDirs
                /\ below >= 0
                /\ \A i \in 1 .. Len(read) :
                      /\ walk_stack[below + i].chain = Append(ch, read[i])
                      /\ IsOpen(fds, walk_stack[below + i].dir)
                /\ \A i \in 1 .. below : ~IsPrefix(ch, walk_stack[i].chain)
                /\ \A L \in SeenFiles : L \in YieldedChains \/ Pending(L)
       /\ result.tag = "None" =>
             /\ YieldedChains = SeenFiles
             /\ \A b \in BrokenDirs :
                   Seen(b) => ChainOf(b) \in SeqSet(hist.failed)

C15_Witness ==
    /\ gone = {} /\ NoFollowOnly
    /\ result.tag = "None"
    /\ \E i \in 1 .. Len(hist.failed) :
          LET d == Last(hist.failed[i])
          IN /\ d \in BrokenDirs
             /\ Len(hist.failed[i]) = 1
             /\ Len(ReadOf(d)) = 1 /\ Cardinality(Children(d)) = 3
    /\ Len(hist.yielded) = 1
\* x comes before y in a directory's listing.
ListedBefore(x, y) == IF rev THEN x > y ELSE x < y

\* C16: the items are popped depth-first: of two children of one directory
\* the one listed later is popped first, and between two pops in the
\* subtree of an item only items of that subtree are popped.
C16_DepthFirstReverseListing ==
    \A i, j \in 1 .. Len(hist.popped) :
       i < j =>
          LET A == hist.popped[i]
              B == hist.popped[j]
          IN /\ A # B
             /\ (/\ Len(A) = Len(B)
                 /\ SubSeq(A, 1, Len(A) - 1) = SubSeq(B, 1, Len(B) - 1))
                => ListedBefore(Last(B), Last(A))
             /\ \A k \in 1 .. Len(A) :
                   IsPrefix(SubSeq(A, 1, k), B) =>
                      \A m \in i .. j : IsPrefix(SubSeq(A, 1, k), hist.popped[m])

C16_Witness ==
    /\ ~rev /\ result.tag = "None"
    /\ hist.popped = <<(<<1>>), <<1, 5>>, <<1, 3>>, <<1, 3, 4>>, <<1, 2>>>>
\* C17: every entry a walk that retains handles yields has a retained
\* parent handle, so stat(), open() and open_options() on it reach their
\* relative syscall; the root yielded as a leaf is no exception.
C17_YieldedEntryReachesSyscall ==
    (comp.D = "WithOpen" /\ result.tag = "Ok") =>
       /\ result.node.parent_dir # NoNode
       /\ stat(result.node) = "fstatat"
       /\ open(result.node) = "openat"
       /\ open_options(result.node) = "openat"
\* C18: over a root path that names nothing, the first pull and every
\* later one return the end of the sequence: the open of the root is
\* answered "no such entry", which is skipped, and nothing is yielded.
C18_MissingRootEndsAtOnce ==
    (path = "nx" /\ result.tag # "NoPull") =>
       /\ result.tag = "None"
       /\ walk_stack = <<>>
       /\ hist.yielded = <<>>
       /\ hist.failed = <<>>
       /\ hist.popped = <<(<<NoNode>>)>>
       /\ \A o \in hist.opens : o.how = "open" /\ o.errno = "ENOENT"

C18_Witness ==
    /\ path = "nx" /\ result.tag = "None"
    /\ Len(result.log) = 1
    /\ result.log[1].errno = "ENOENT" /\ result.log[1].name = "nx"
    /\ hist.yielded = <<>> /\ hist.failed = <<>>
\* C19: as long as every open of a walk is made without follow, no item,
\* yielded or failed, is a symlink, whatever the symlink points to; every
\* open of a symlink that is still there is answered with the loop
\* indicator.  Pulled to exhaustion over a tree nobody modifies and
\* without faults, the walk has yielded exactly the entries that are
\* neither symlinks nor directories, each once.
C19_NoFollowSymlinkGivesNoItem ==
    NoFollowOnly =>
       /\ \A c \in YieldedChains \cup SeqSet(hist.failed) :
             Last(c) \in Nodes /\ fs.kind[Last(c)] # "link"
       /\ \A o \in hist.opens :
             (Last(o.chain) \in Nodes /\ fs.kind[Last(o.chain)] = "link") =>
                o.errno \in {"ELOOP", "ENOENT"}
       /\ (result.tag = "None" /\ gone = {} /\ NoFaults) =>
             /\ NoDuplicates(hist.yielded)
             /\ YieldedChains =
                   {ChainOf(x) : x \in {y \in Nodes : RootFound /\ fs.kind[y] = "file"}}

C19_Witness ==
    /\ NoFollowOnly /\ result.tag = "None" /\ gone = {} /\ NoFaults
    /\ \E l \in Nodes :
          /\ fs.kind[l] = "link" /\ fs.target[l] \in Nodes
          /\ fs.kind[fs.target[l]] = "file"
          /\ \E o \in hist.opens : o.chain = ChainOf(l) /\ o.errno = "ELOOP"
          /\ ChainOf(fs.target[l]) \in YieldedChains
\* C20: a walk that retains no handles never has more directories open
\* than the entry it is processing is deep, plus one: when an open returns
\* at most the directories from the root down to the opened entry are
\* open, between pulls at most those above the entry processed last, and
\* none once the walk is exhausted.
C20_OpenDirsBoundedByDepth ==
    comp.D = "WithoutOpen" =>
       /\ \A i \in 1 .. Len(result.log) :
             result.log[i].nopen <= Len(result.log[i].chain)
       /\ \A o \in hist.opens : o.nopen <= Len(o.chain)
       /\ OpenDirs(fds) = StackDirs(walk_stack)
       /\ result.log # <<>> =>
             Cardinality(OpenDirs(fds)) <= Len(Last(result.log).chain)
       /\ result.tag \in {"None", "NoPull"} => OpenDirs(fds) = {}

C20_Witness ==
    /\ comp.D = "WithoutOpen" /\ result.tag = "Ok"
    /\ Len(result.chain) = 3
    /\ Cardinality(OpenDirs(fds)) = 1
    /\ \E o \in hist.opens : o.errno = "OK" /\ Len(o.chain) = 2 /\ o.nopen = 2
    /\ Last(result.log).nopen = 2
====
